---- MODULE Spec2Model ----
(***************************************************************************)
(* Model of biblioruler/exporters/zotero_rdf.py: the Zotero RDF exporter.  *)
(*                                                                         *)
(* The output stream is a sequence of tokens, one per written line that    *)
(* carries structure (opening and closing tags, links, fragments).  The    *)
(* scalar fields of a publication (title, abstract, volume, number, doi,   *)
(* pages, keywords, read, date, creation date) are written between the     *)
(* item type and the links or after the container and carry no structure:  *)
(* they are not part of the token stream.  Indentation is whitespace and   *)
(* is not modelled.                                                        *)
(*                                                                         *)
(* Strings that the code transforms (identifiers, paths) are sequences of  *)
(* strings, each element standing for one character or for a run of        *)
(* characters that no transformation of the code touches.                  *)
(***************************************************************************)
EXTENDS Integers, Sequences, FiniteSets, TLC

VARIABLES
    embed_container,  \* self.embed_container
    annotate,         \* self.annotate
    overwrite,        \* self.overwrite
    path,             \* self.path
    publications,     \* the publications handed to export
    container,        \* paper.container of every publication
    ptype,            \* paper.type of every publication
    fkind,            \* what exists() and has_externalannotations() answer
    html,             \* note.html of every note
    pc,               \* position of export: idle, writing, done, failed
    run,              \* number of calls of export so far
    prev,             \* how the call of export before this one ended
    idx,              \* position of the loop over publications
    cidx,             \* position of the loop over collections
    stack,            \* the frames of output_paper, innermost last
    out,              \* the stream "<path>.rdf"
    fs,               \* the files of the output directory
    dirExists,        \* whether the output directory exists
    embedded,         \* the embed_annotations calls of this run, in order
    fsAtStart,        \* fs when this run of export began
    exc,              \* the exception that left export, "none" if none
    last              \* the output_file call that has just returned

vars == <<embed_container, annotate, overwrite, path, publications, container,
          ptype, fkind, html, pc, run, prev, idx, cidx, stack, out, fs, dirExists,
          embedded, fsAtStart, exc, last>>

config == <<embed_container, annotate, overwrite>>
library == <<publications, container, ptype, fkind, html>>

(***************************************************************************)
(* Bounds                                                                  *)
(***************************************************************************)
MaxRuns == 2

\* the longest note.html the specification of the notes draws
MaxHtmlLen == 2

(***************************************************************************)
(* The library handed to the exporter                                      *)
(***************************************************************************)
None == "None"

\* self.path before export is called
NoPath == <<>>

Papers == {"P1", "P2", "K"}
Files == {"F1", "F2", "FK"}
Notes == {"N1", "NK"}
Collections == {"C1", "C2"}

\* paper.files
files(p) == CASE p = "P1" -> <<"F1", "F2">>
              [] p = "K" -> <<"FK">>
              [] OTHER -> <<>>

\* paper.notes
notes(p) == CASE p = "P1" -> <<"N1">>
              [] p = "K" -> <<"NK">>
              [] OTHER -> <<>>

\* paper.authors (their number)
authors(p) == CASE p = "P1" -> 2
                [] p = "P2" -> 1
                [] OTHER -> 0

\* the collections handed to export, in the caller's order
collections == <<"C1", "C2">>

\* collection.children
children(c) == IF c = "C1" THEN <<"C2">> ELSE <<>>

\* collection.publications
members(c) == IF c = "C1" THEN <<"P1", "P2">> ELSE <<"K">>

\* the uuid of an entity
uuid(e) == CASE e \in Papers -> <<"paper", ":", e>>
             [] e \in Files -> <<"file", ":", e>>
             [] e \in Notes -> <<"note", ":", e>>
             [] OTHER -> <<"collection", ":", e>>

\* f.path, the original path of a file
fpath(f) == <<"library", "/", f, "/", "R", "&", "D.pdf">>

\* the path argument of export
ExportPath == <<"export">>

\* the paper types a library may hold: keys of ZTYPE and one CSL type that
\* ZTYPE does not map
KnownType(p) == CASE p = "P1" -> "article-journal"
                  [] p = "P2" -> "paper-conference"
                  [] OTHER -> "journal"
UnmappedType == "manuscript"

FileKinds == {"missing", "plain", "annotated"}

\* f.exists()
exists(f) == fkind[f] # "missing"

\* f.has_externalannotations()
has_externalannotations(f) == fkind[f] = "annotated"

(***************************************************************************)
(* Module-level tables and helpers                                         *)
(***************************************************************************)
\* no character is replaced
EscapeCharNone(c) == <<c>>

\* xml.sax.saxutils.escape on one character
EscapeChar(c) == CASE c = "&" -> <<"&amp;">>
                   [] c = "<" -> <<"&lt;">>
                   [] c = ">" -> <<"&gt;">>
                   [] OTHER -> <<c>>

RECURSIVE escape(_)
escape(s) == IF s = <<>> THEN <<>> ELSE EscapeChar(Head(s)) \o escape(Tail(s))

BIBTYPE == << >>

ZTYPE == [t \in {"paper-conference", "article-journal", "report", "book",
                 "chapter", "journal", "patent", "webpage", "thesis",
                 "entry", "bill"} |->
            CASE t = "paper-conference" -> "conferencePaper"
              [] t = "article-journal" -> "journalArticle"
              [] t = "report" -> "report"
              [] t = "book" -> "book"
              [] t = "chapter" -> "bookSection"
              [] t = "journal" -> "journal"
              [] t = "patent" -> "patent"
              [] t = "webpage" -> "webpage"
              [] t = "thesis" -> "thesis"
              [] t = "entry" -> "document"
              [] t = "bill" -> "hearing"]

RE_FILECHARS == {"/", ":", "-", "\"", "'"}

\* RE_FILECHARS.sub("_", s)
RECURSIVE SubFileChars(_)
SubFileChars(s) ==
    IF s = <<>> THEN <<>>
    ELSE <<IF Head(s) \in RE_FILECHARS THEN "_" ELSE Head(s)>> \o SubFileChars(Tail(s))

\* op.basename: what follows the last "/"
basename(p) ==
    LET slashes == {i \in 1..Len(p) : p[i] = "/"}
        from == IF slashes = {} THEN 1
                ELSE 1 + CHOOSE i \in slashes : \A j \in slashes : j <= i
    IN SubSeq(p, from, Len(p))

\* the tag taken from ZTYPE
gtypeMapped(t) == IF t \in DOMAIN ZTYPE THEN ZTYPE[t] ELSE "Article"

\* BIBTYPE.get(paper.type, "Article")
gtype(t) == IF t \in DOMAIN BIBTYPE THEN BIBTYPE[t] ELSE "Article"

(***************************************************************************)
(* Tokens of the stream                                                    *)
(***************************************************************************)
Tok(k, id, v) == [k |-> k, id |-> id, v |-> v]

Header == Tok("header", <<>>, <<>>)
Footer == Tok("footer", <<>>, <<>>)
OpenTag(tag, id) == Tok("open", id, <<tag>>)
CloseTag(tag) == Tok("close", <<>>, <<tag>>)
AuthorsTok(n) == IF n > 0 THEN <<Tok("authors", <<>>, <<>>)>> ELSE <<>>
ItemType(t) == Tok("itemType", <<>>, <<t>>)
LinkTok(id) == Tok("link", id, <<>>)
IsPartOfOpen == Tok("isPartOfOpen", <<>>, <<>>)
IsPartOfClose == Tok("isPartOfClose", <<>>, <<>>)
IsPartOfRef(id) == Tok("isPartOfRef", id, <<>>)
NoteRef(id) == Tok("isReferencedBy", id, <<>>)
Memo(id, body) == Tok("memo", id, body)
Attachment(id, p) == Tok("attachment", id, p)
CollectionOpen(id) == Tok("collection", id, <<>>)
HasPart(id) == Tok("hasPart", id, <<>>)
CollectionClose == Tok("collectionEnd", <<>>, <<>>)

(***************************************************************************)
(* The file system of the output directory                                 *)
(***************************************************************************)
Absent == [exists |-> FALSE, size |-> 0, gen |-> 0]
EmptyFile == [exists |-> TRUE, size |-> 0, gen |-> 0]
StaleFile == [exists |-> TRUE, size |-> 1, gen |-> 0]
\* the file an embed_annotations call of run r writes, whole or in part
Written(r) == [exists |-> TRUE, size |-> 1, gen |-> r]

\* uuidpath + "-" + op.basename(f.path) (lines 241-242)
destname(f) == SubFileChars(uuid(f)) \o <<"-">> \o basename(fpath(f))

\* op.join(self.path, ...)
dest(dir, f) == dir \o <<"/">> \o destname(f)

\* every destination the library's files can have under ExportPath
Dests == {dest(ExportPath, f) : f \in Files}

\* What a call of embed_annotations may do: return having written the file,
\* or raise one of three classes of exception, leaving the destination as
\* it was or partly written.
Outcomes == {[raises |-> "none", leaves |-> "written"]} \cup
            [raises : {"PdfReadError", "IOError", "ValueError"},
             leaves : {"untouched", "partial"}]

\* embed_annotations(d): the files after a call of run r with outcome o
embed_annotations(fsys, d, o, r) ==
    IF o.leaves = "untouched" THEN fsys ELSE [fsys EXCEPT ![d] = Written(r)]

(***************************************************************************)
(* output_file (lines 212-266)                                             *)
(***************************************************************************)
\* no file is left out
OmittedNever(f) == FALSE

\* lines 215-216: a file that does not exist is left out
Omitted(f) == ~exists(f)

\* line 240: the file is to be converted
Converts(f) == annotate /\ has_externalannotations(f)

\* the annotated copy is written again whatever is there
NeedsEmbedAlways(st) == TRUE

\* line 246: the annotated copy has to be written
NeedsEmbed(st) == (~st.exists) \/ (st.size = 0)

\* the destination is left as embed_annotations left it
RemoveNever(fsys, d) == fsys

\* lines 252-253: remove the destination if it exists
RemoveIfExists(fsys, d) ==
    IF fsys[d].exists THEN [fsys EXCEPT ![d] = Absent] ELSE fsys

\* line 256: the errors handled gracefully
Recoverable(e) == e \in {"PdfReadError", "IOError"}

\* lines 243-260: the path the fragment references after the try block
ResolvedPath(f, d, raised) == IF raised # "none" THEN fpath(f) ELSE d

\* lines 218-264: the fragment written to the side buffer
FileFragment(f, p) == <<Attachment(uuid(f), escape(p))>>

\* The whole call on file f when embed_annotations, if called, ends with
\* outcome o: what it returns (ret), what it writes to the buffer (frag),
\* the files afterwards, whether embed_annotations was called, the exception
\* it raised and whether that exception leaves output_file.
output_file(f, o, fsys, r) ==
    IF Omitted(f)
    THEN [ret |-> FALSE, frag |-> <<>>, fs |-> fsys, invoked |-> FALSE,
          raised |-> "none", propagates |-> FALSE]
    ELSE IF ~Converts(f)
    THEN [ret |-> TRUE, frag |-> FileFragment(f, fpath(f)), fs |-> fsys,
          invoked |-> FALSE, raised |-> "none", propagates |-> FALSE]
    ELSE LET d == dest(path, f)
             invoked == NeedsEmbed(fsys[d])
             raised == IF invoked THEN o.raises ELSE "none"
             fs1 == IF invoked THEN embed_annotations(fsys, d, o, r) ELSE fsys
             fs2 == IF raised # "none" THEN RemoveIfExists(fs1, d) ELSE fs1
             propagates == raised # "none" /\ ~Recoverable(raised)
         IN [ret |-> TRUE,
             frag |-> IF propagates THEN <<>>
                      ELSE FileFragment(f, ResolvedPath(f, d, raised)),
             fs |-> fs2, invoked |-> invoked, raised |-> raised,
             propagates |-> propagates]

NoCall == [valid |-> FALSE, file |-> None, converts |-> FALSE, before |-> Absent,
           invoked |-> FALSE, raised |-> "none", frag |-> <<>>,
           outBefore |-> <<>>]

Top == stack[Len(stack)]

Frame(p) == [paper |-> p, stage |-> "files", fi |-> 1, appendout |-> <<>>,
             attachments |-> <<>>]

\* the stack with its innermost frame replaced
SetTop(fr) == [stack EXCEPT ![Len(stack)] = fr]

Pop == SubSeq(stack, 1, Len(stack) - 1)

(***************************************************************************)
(* export (lines 63-89)                                                    *)
(***************************************************************************)
\* the directory is not made
MakeDirsSkipped == dirExists

\* lines 67-68
MakeDirs == annotate \/ dirExists

\* lines 65-81: export is called; the stream is opened and the header written
Export ==
    /\ pc \in {"idle", "done", "failed"}
    /\ run < MaxRuns
    /\ run' = run + 1
    /\ prev' = pc
    /\ path' = ExportPath
    /\ dirExists' = MakeDirs
    /\ out' = <<Header>>
    /\ pc' = "writing"
    /\ idx' = 1
    /\ cidx' = 1
    /\ stack' = <<>>
    /\ embedded' = <<>>
    /\ fsAtStart' = fs
    /\ exc' = "none"
    /\ last' = NoCall
    /\ UNCHANGED <<config, library, fs>>

\* lines 83-84: the loop calls output_paper on the next publication
NextPaper ==
    /\ pc = "writing"
    /\ stack = <<>>
    /\ idx <= Len(publications)
    /\ stack' = <<Frame(publications[idx])>>
    /\ idx' = idx + 1
    /\ last' = NoCall
    /\ UNCHANGED <<config, library, prev, path, pc, run, cidx, out, fs, dirExists,
                   embedded, fsAtStart, exc>>

\* lines 98-100: one turn of the loop over paper.files, a call of output_file
OutputFile ==
    /\ pc = "writing"
    /\ stack # <<>>
    /\ Top.stage = "files"
    /\ Top.fi <= Len(files(Top.paper))
    /\ \E o \in Outcomes :
        LET f == files(Top.paper)[Top.fi]
            r == output_file(f, o, fs, run)
        IN /\ fs' = r.fs
           /\ embedded' = IF r.invoked THEN Append(embedded, f) ELSE embedded
           /\ last' = [valid |-> TRUE, file |-> f, converts |-> exists(f) /\ Converts(f),
                       before |-> fs[dest(path, f)], invoked |-> r.invoked,
                       raised |-> r.raised, frag |-> r.frag, outBefore |-> out]
           /\ IF r.propagates
              THEN /\ pc' = "failed"
                   /\ exc' = r.raised
                   /\ stack' = <<>>
              ELSE /\ stack' = SetTop([Top EXCEPT
                          !.fi = @ + 1,
                          !.appendout = @ \o r.frag,
                          !.attachments = IF r.ret THEN Append(@, uuid(f)) ELSE @])
                   /\ UNCHANGED <<pc, exc>>
    /\ UNCHANGED <<config, library, prev, path, run, idx, cidx, out, dirExists,
                   fsAtStart>>

(***************************************************************************)
(* output_paper (lines 91-203)                                             *)
(***************************************************************************)
\* line 102 and lines 104-110: the opening tag and the authors
PaperHead(p) == <<OpenTag(gtype(ptype[p]), uuid(p))>> \o AuthorsTok(authors(p))

\* a lookup with a default: ZTYPE.get(t, "document")
LookupZTYPEDefault(t) ==
    [ok |-> TRUE, v |-> IF t \in DOMAIN ZTYPE THEN ZTYPE[t] ELSE "document"]

\* line 112: ZTYPE[paper.type], which raises KeyError on a type that is no key
LookupZTYPE(t) ==
    IF t \in DOMAIN ZTYPE THEN [ok |-> TRUE, v |-> ZTYPE[t]]
    ELSE [ok |-> FALSE, v |-> "KeyError"]

\* line 112: the item type
PaperItemType(p) == <<ItemType(LookupZTYPE(ptype[p]).v)>>

\* lines 148-154: one link per attachment
PaperLinks(atts) == [i \in 1..Len(atts) |-> LinkTok(escape(atts[i]))]

\* the container is serialized in place whatever embed_container says
EmbedsContainerAlways(p) == container[p] # None

\* lines 162-173: a container is serialized in place
EmbedsContainer(p) == container[p] # None /\ embed_container

\* lines 162-173: what is written for the container before any recursive call
ContainerPart(p) ==
    IF container[p] = None THEN <<>>
    ELSE IF EmbedsContainer(p) THEN <<IsPartOfOpen>>
    ELSE <<IsPartOfRef(uuid(container[p]))>>

\* lines 187-193: the references to the notes
PaperNoteRefs(p) == [i \in 1..Len(notes(p)) |-> NoteRef(uuid(notes(p)[i]))]

\* the notes, each about the publication instead of the note
PaperMemosAboutPaper(p) ==
    [i \in 1..Len(notes(p)) |-> Memo(uuid(p), escape(html[notes(p)[i]]))]

\* lines 197-200: the notes
PaperMemos(p) ==
    [i \in 1..Len(notes(p)) |-> Memo(uuid(notes(p)[i]), escape(html[notes(p)[i]]))]

\* lines 166-203: what output_paper writes after the container, given the
\* side buffer of the attachments
PaperRest(p, appendout) ==
    PaperNoteRefs(p) \o <<CloseTag(gtype(ptype[p]))>> \o PaperMemos(p) \o appendout

\* lines 102-173: the files are done; the element is opened and written up
\* to the container.  An unmapped type raises KeyError at line 112.
OutputPaperBody ==
    /\ pc = "writing"
    /\ stack # <<>>
    /\ Top.stage = "files"
    /\ Top.fi > Len(files(Top.paper))
    /\ LET p == Top.paper
       IN IF ~LookupZTYPE(ptype[p]).ok
          THEN /\ out' = out \o PaperHead(p)
               /\ pc' = "failed"
               /\ exc' = LookupZTYPE(ptype[p]).v
               /\ stack' = <<>>
          ELSE /\ out' = out \o PaperHead(p) \o PaperItemType(p)
                             \o PaperLinks(Top.attachments) \o ContainerPart(p)
               /\ stack' = IF EmbedsContainer(p)
                           THEN Append(SetTop([Top EXCEPT !.stage = "container"]),
                                       Frame(container[p]))
                           ELSE SetTop([Top EXCEPT !.stage = "rest"])
               /\ UNCHANGED <<pc, exc>>
    /\ last' = NoCall
    /\ UNCHANGED <<config, library, prev, path, run, idx, cidx, fs, dirExists,
                   embedded, fsAtStart>>

\* lines 166-203: the rest of the element, the notes and the side buffer;
\* output_paper returns
OutputPaperRest ==
    /\ pc = "writing"
    /\ stack # <<>>
    /\ Top.stage \in {"container", "rest"}
    /\ out' = out \o (IF Top.stage = "container" THEN <<IsPartOfClose>> ELSE <<>>)
                  \o PaperRest(Top.paper, Top.appendout)
    /\ stack' = Pop
    /\ last' = NoCall
    /\ UNCHANGED <<config, library, prev, path, pc, run, idx, cidx, fs, dirExists,
                   embedded, fsAtStart, exc>>

(***************************************************************************)
(* output_collection (lines 268-279)                                       *)
(***************************************************************************)
CollectionFragment(c) ==
    <<CollectionOpen(uuid(c))>>
    \o [i \in 1..Len(children(c)) |-> HasPart(uuid(children(c)[i]))]
    \o [i \in 1..Len(members(c)) |-> HasPart(uuid(members(c)[i]))]
    \o <<CollectionClose>>

\* lines 86-87: the loop calls output_collection on the next collection
OutputCollection ==
    /\ pc = "writing"
    /\ stack = <<>>
    /\ idx > Len(publications)
    /\ cidx <= Len(collections)
    /\ out' = out \o CollectionFragment(collections[cidx])
    /\ cidx' = cidx + 1
    /\ last' = NoCall
    /\ UNCHANGED <<config, library, prev, path, pc, run, idx, stack, fs, dirExists,
                   embedded, fsAtStart, exc>>

\* line 89: the closing tag; the stream is closed
Finish ==
    /\ pc = "writing"
    /\ stack = <<>>
    /\ idx > Len(publications)
    /\ cidx > Len(collections)
    /\ out' = Append(out, Footer)
    /\ pc' = "done"
    /\ last' = NoCall
    /\ UNCHANGED <<config, library, prev, path, run, idx, cidx, stack, fs, dirExists,
                   embedded, fsAtStart, exc>>

(***************************************************************************)
(* The specification                                                       *)
(***************************************************************************)
\* The libraries: P1 is part of K; P2 may be part of K too; K may be handed
\* to export as a publication of its own.
Shapes ==
    {[publications |-> <<"P1", "P2">>,
      container |-> [p \in Papers |-> IF p = "P1" THEN "K" ELSE None]],
     [publications |-> <<"P1", "P2">>,
      container |-> [p \in Papers |-> IF p = "K" THEN None ELSE "K"]],
     [publications |-> <<"P1", "P2", "K">>,
      container |-> [p \in Papers |-> IF p = "P1" THEN "K" ELSE None]]}

\* the characters of a note: a letter and the three that escape replaces
HtmlChars == {"a", "<", ">", "&"}

\* every note.html of at most MaxHtmlLen characters
HtmlStrings == UNION {[1..n -> HtmlChars] : n \in 0..MaxHtmlLen}

\* the notes of the libraries of Init: markup, and plain text
DefaultHtml == [n \in Notes |->
                  IF n = "N1" THEN <<"<", "p", ">", "R", "&", "D", "<", "/", "p", ">">>
                  ELSE <<"plain">>]

\* The exporter after __init__ and create (lines 55-61, 281-306), a library
\* and an output directory that earlier exports may have filled.
Init ==
    /\ embed_container \in BOOLEAN
    /\ annotate \in BOOLEAN
    /\ overwrite \in BOOLEAN
    /\ path = NoPath
    /\ \E shape \in Shapes :
           /\ publications = shape.publications
           /\ container = shape.container
    /\ \E bad \in Papers \cup {None} :
           ptype = [p \in Papers |-> IF p = bad THEN UnmappedType ELSE KnownType(p)]
    /\ fkind \in [Files -> FileKinds]
    /\ fkind["F2"] # "annotated"
    /\ html = DefaultHtml
    /\ fs \in [Dests -> {Absent, EmptyFile, StaleFile}]
    /\ \A f \in Files :
           fs[dest(ExportPath, f)].exists =>
               f = "F1" /\ annotate /\ fkind[f] = "annotated"
    /\ dirExists = (\E d \in Dests : fs[d].exists)
    /\ pc = "idle"
    /\ run = 0
    /\ prev = "idle"
    /\ idx = 1
    /\ cidx = 1
    /\ stack = <<>>
    /\ out = <<>>
    /\ embedded = <<>>
    /\ fsAtStart = fs
    /\ exc = "none"
    /\ last = NoCall

Next ==
    \/ Export
    \/ NextPaper
    \/ OutputFile
    \/ OutputPaperBody
    \/ OutputPaperRest
    \/ OutputCollection
    \/ Finish

Spec == Init /\ [][Next]_vars

\* The libraries of the specification of the notes: every note.html of at
\* most MaxHtmlLen characters for the note of P1, plain text or markup for
\* the note of K; every file is there and none is annotated.
InitNotes ==
    /\ embed_container \in BOOLEAN
    /\ annotate = FALSE
    /\ overwrite = FALSE
    /\ path = NoPath
    /\ \E shape \in Shapes :
           /\ publications = shape.publications
           /\ container = shape.container
    /\ ptype = [p \in Papers |-> KnownType(p)]
    /\ fkind = [f \in Files |-> "plain"]
    /\ \E h \in HtmlStrings, k \in {<<"plain">>, <<"<", "b", ">", "&", "<", "/", "b", ">">>} :
           html = [n \in Notes |-> IF n = "N1" THEN h ELSE k]
    /\ fs = [d \in Dests |-> Absent]
    /\ dirExists = FALSE
    /\ pc = "idle"
    /\ run = 0
    /\ prev = "idle"
    /\ idx = 1
    /\ cidx = 1
    /\ stack = <<>>
    /\ out = <<>>
    /\ embedded = <<>>
    /\ fsAtStart = fs
    /\ exc = "none"
    /\ last = NoCall

SpecNotes == InitNotes /\ [][Next]_vars

(***************************************************************************)
(* Reading the stream                                                      *)
(***************************************************************************)
\* the number of publication elements open before token i of s
Depth(s, i) == Cardinality({j \in 1..(i - 1) : s[j].k = "open"})
               - Cardinality({j \in 1..(i - 1) : s[j].k = "close"})

\* the closing tags after i that close the element opened at i
Closers(s, i) == {j \in (i + 1)..Len(s) :
                      s[j].k = "close" /\ Depth(s, j) = Depth(s, i) + 1}

\* the elements of s that are closed: where they open
ClosedElements(s) == {i \in 1..Len(s) : s[i].k = "open" /\ Closers(s, i) # {}}

\* where the element opened at i closes
CloseOf(s, i) == CHOOSE j \in Closers(s, i) : \A m \in Closers(s, i) : j <= m

\* the tokens directly inside the element opened at i
ChildrenOf(s, i) == {m \in (i + 1)..(CloseOf(s, i) - 1) : Depth(s, m) = Depth(s, i) + 1}

\* the publication whose uuid is u
PaperOf(u) == CHOOSE p \in Papers : uuid(p) = u

\* the elements of sequence s
Range(s) == {s[i] : i \in 1..Len(s)}

(***************************************************************************)
(* C1: in output_file, for a file that exists and has external annotations *)
(* under annotate, embed_annotations is skipped only if the destination    *)
(* exists, is non-empty and overwrite is not set; in every other case it   *)
(* is invoked.                                                             *)
(***************************************************************************)
C1_EmbedUnlessCachedAndNoOverwrite ==
    (last.valid /\ last.converts) =>
        (last.invoked <=>
            ~(last.before.exists /\ last.before.size > 0 /\ ~overwrite))

(***************************************************************************)
(* C2: when embed_annotations fails in output_file the destination does    *)
(* not exist afterwards; after a PdfReadError or an IOError the fragment of *)
(* the attachment references the original path and the export goes on with *)
(* the next file; after any other exception the exception leaves export    *)
(* and nothing more is written to the stream.                              *)
(***************************************************************************)
C2_FailurePolicy ==
    (last.valid /\ last.raised # "none") =>
        /\ ~fs[dest(path, last.file)].exists
        /\ last.raised \in {"PdfReadError", "IOError"} =>
               /\ pc = "writing"
               /\ exc = "none"
               /\ stack # <<>>
               /\ last.file \in Range(SubSeq(files(Top.paper), 1, Top.fi - 1))
               /\ Top.appendout # <<>>
               /\ Top.appendout[Len(Top.appendout)]
                      = Attachment(uuid(last.file), escape(fpath(last.file)))
               /\ Top.attachments[Len(Top.attachments)] = uuid(last.file)
        /\ last.raised \notin {"PdfReadError", "IOError"} =>
               /\ pc = "failed"
               /\ exc = last.raised
               /\ stack = <<>>
               /\ out = last.outBefore
               /\ Footer \notin Range(out)

\* a recoverable failure on a destination that was there before the call,
\* with another file of the publication still to come
C2_Witness ==
    /\ last.valid
    /\ last.raised = "IOError"
    /\ last.before.exists
    /\ pc = "writing"
    /\ Top.fi <= Len(files(Top.paper))

(***************************************************************************)
(* C4: in a run of export that follows a run that returned, with annotate  *)
(* set and overwrite not set, on an unchanged library, embed_annotations   *)
(* is not invoked for any attachment and every derived file stays as the   *)
(* first run left it.                                                      *)
(***************************************************************************)
C4_SecondRunEmbedsNothing ==
    (run >= 2 /\ prev = "done" /\ annotate /\ ~overwrite) =>
        (embedded = <<>> /\ fs = fsAtStart)

\* C4 as amended: in a run that follows another, the same for every
\* attachment whose derived file the first run left in place and non-empty;
\* an attachment whose derivation failed in the first run is derived again.
C4_SecondRunReusesDerivedFiles ==
    (run >= 2 /\ annotate /\ ~overwrite) =>
        \A f \in Files :
            LET d == dest(path, f)
            IN (fsAtStart[d].exists /\ fsAtStart[d].size > 0) =>
                   (f \notin Range(embedded) /\ fs[d] = fsAtStart[d])

\* a second run has gone through output_file on an attachment whose derived
\* file the first run wrote
C4_Witness ==
    /\ run = 2
    /\ prev = "done"
    /\ annotate
    /\ ~overwrite
    /\ last.valid
    /\ last.converts
    /\ last.before = Written(1)
    /\ ~last.invoked

(***************************************************************************)
(* More reading of the stream                                              *)
(***************************************************************************)
\* the tokens that follow the closing tag at j and are notes or attachments:
\* the fragments output_paper writes after the element it closed at j
TrailOf(s, j) == {m \in (j + 1)..Len(s) :
                     \A n \in (j + 1)..m : s[n].k \in {"memo", "attachment"}}

\* how many tokens of s at the positions I are t
Count(s, I, t) == Cardinality({m \in I : s[m] = t})

\* the positions of the elements that are not inside another element
TopOpens(s) == {i \in 1..Len(s) : s[i].k = "open" /\ Depth(s, i) = 0}

\* the tokens that carry an rdf:about
Abouts(s) == {i \in 1..Len(s) : s[i].k \in {"open", "attachment", "memo", "collection"}}

(***************************************************************************)
(* C3: for every publication serialized by output_paper and every file F   *)
(* of it, a link to F is written inside the publication element if and     *)
(* only if an attachment fragment for F is written, and both if and only   *)
(* if F exists; a file that does not exist contributes neither and raises  *)
(* no error.                                                               *)
(***************************************************************************)
C3_LinkIffAttachmentIffExists ==
    /\ \A i \in ClosedElements(out) :
         LET p == PaperOf(out[i].id)
             j == CloseOf(out, i)
         IN \A n \in 1..Len(files(p)) :
              LET f == files(p)[n]
                  links == Count(out, ChildrenOf(out, i), LinkTok(uuid(f)))
                  frags == Cardinality({m \in TrailOf(out, j) :
                               out[m].k = "attachment" /\ out[m].id = uuid(f)})
              IN /\ links = (IF fkind[f] # "missing" THEN 1 ELSE 0)
                 /\ frags = links
    /\ (last.valid /\ fkind[last.file] = "missing") =>
           (last.raised = "none" /\ last.frag = <<>> /\ pc = "writing")

\* a serialized publication with a file that is missing and one that exists
C3_Witness ==
    \E i \in ClosedElements(out) :
        /\ out[i].id = uuid("P1")
        /\ fkind["F1"] = "missing"
        /\ fkind["F2"] # "missing"

(***************************************************************************)
(* C5: for every publication whose type is a key of ZTYPE, the tag of the  *)
(* item element, opening and closing, is the mapped type of its type.      *)
(***************************************************************************)
C5_TagIsMappedType ==
    \A i \in 1..Len(out) :
        (out[i].k = "open" /\ ptype[PaperOf(out[i].id)] \in DOMAIN ZTYPE) =>
            /\ out[i].v = <<ZTYPE[ptype[PaperOf(out[i].id)]]>>
            /\ i \in ClosedElements(out) =>
                   out[CloseOf(out, i)].v = <<ZTYPE[ptype[PaperOf(out[i].id)]]>>

\* C5 as amended: the tag of the item element, opening and closing, is
\* Article, the default of the empty table BIBTYPE; the mapped type is the
\* text of the z:itemType inside the element.
C5_TagIsArticleItemTypeIsMapped ==
    \A i \in 1..Len(out) :
        (out[i].k = "open" /\ ptype[PaperOf(out[i].id)] \in DOMAIN ZTYPE) =>
            /\ out[i].v = <<"Article">>
            /\ i \in ClosedElements(out) => out[CloseOf(out, i)].v = <<"Article">>
            /\ \E m \in {i + 1, i + 2} :
                   /\ m <= Len(out)
                   /\ out[m] = ItemType(ZTYPE[ptype[PaperOf(out[i].id)]])
                   /\ \A n \in (i + 1)..(m - 1) : out[n].k = "authors"

\* the element of a journal article is closed
C5_Witness ==
    \E i \in ClosedElements(out) :
        /\ ptype[PaperOf(out[i].id)] = "article-journal"
        /\ ItemType("journalArticle") \in Range(out)

(***************************************************************************)
(* C6: if a publication reached by export, at the top level or as an       *)
(* embedded container, has a type that is no key of ZTYPE, export raises,  *)
(* the closing </rdf:RDF> is never written and nothing after the failing   *)
(* publication is serialized.                                              *)
(***************************************************************************)
\* the publications export reaches
Reached == Range(publications) \cup
           {container[p] : p \in {q \in Range(publications) :
                                     container[q] # None /\ embed_container}}

C6_UnmappedTypeAborts ==
    /\ \A i \in 1..Len(out) :
         (out[i].k = "open" /\ ptype[PaperOf(out[i].id)] \notin DOMAIN ZTYPE) =>
             /\ pc = "failed"
             /\ exc = "KeyError"
             /\ Footer \notin Range(out)
             /\ \A m \in (i + 1)..Len(out) : out[m].k = "authors"
    /\ pc = "done" => \A p \in Reached : ptype[p] \in DOMAIN ZTYPE
    /\ Footer \in Range(out) => pc = "done"

\* the type of an embedded container is not mapped and export has raised
C6_Witness ==
    /\ pc = "failed"
    /\ exc = "KeyError"
    /\ ptype["K"] = UnmappedType
    /\ \E i \in 1..Len(out) : out[i].k = "open" /\ out[i].id = uuid("K")
                                /\ Depth(out, i) = 1

(***************************************************************************)
(* C7: in a successful run of export the header is written once and first, *)
(* then the publications in the caller's order, then the collections in    *)
(* the caller's order, then the closing tag once and last; nothing is      *)
(* written after it.  Under annotate the output directory exists before    *)
(* the header is written.                                                  *)
(***************************************************************************)
\* the n-th of the positions I, in increasing order
Nth(I, n) == CHOOSE i \in I : Cardinality({m \in I : m < i}) = n - 1

CollectionOpens(s) == {i \in 1..Len(s) : s[i].k = "collection"}

C7_WriteOrder ==
    /\ out # <<>> =>
         /\ out[1] = Header
         /\ Count(out, 1..Len(out), Header) = 1
         /\ annotate => dirExists
    /\ \A i \in 1..Len(out) : out[i] = Footer => (i = Len(out) /\ pc = "done")
    /\ pc = "done" =>
         /\ out[Len(out)] = Footer
         /\ Cardinality(TopOpens(out)) = Len(publications)
         /\ \A n \in 1..Len(publications) :
                out[Nth(TopOpens(out), n)].id = uuid(publications[n])
         /\ Cardinality(CollectionOpens(out)) = Len(collections)
         /\ \A n \in 1..Len(collections) :
                out[Nth(CollectionOpens(out), n)].id = uuid(collections[n])
         /\ \A i \in CollectionOpens(out) : \A m \in i..(Len(out) - 1) :
                out[m].k \in {"collection", "hasPart", "collectionEnd"}

\* a run under annotate that began without the output directory has ended
C7_Witness ==
    /\ pc = "done"
    /\ annotate
    /\ run = 1
    /\ Len(publications) = 3
    /\ \A d \in Dests : ~fsAtStart[d].exists

(***************************************************************************)
(* C8: every identifier written as the rdf:about of an element occurs at   *)
(* most once in the document, whatever embed_container is, also when two   *)
(* publications share a container.                                         *)
(***************************************************************************)
C8_IdentifiersUnique ==
    \A i, j \in Abouts(out) : i # j => out[i].id # out[j].id

\* no publication is serialized twice: no container is embedded in place that
\* is also handed to export or the container of another publication
NoPaperTwice ==
    \/ ~embed_container
    \/ \A n, m \in 1..Len(publications) :
         LET p == publications[n]
             q == publications[m]
         IN container[p] # None =>
                /\ container[p] # q
                /\ n # m => container[p] # container[q]

\* C8 as amended: the same, provided no publication is serialized twice.
C8_IdentifiersUniqueUnlessRepeated ==
    NoPaperTwice => C8_IdentifiersUnique

\* a container is embedded in place, once, with its note and its attachment
C8_Witness ==
    /\ pc = "done"
    /\ embed_container
    /\ NoPaperTwice
    /\ \E i \in Abouts(out) : out[i].k = "attachment" /\ out[i].id = uuid("FK")
    /\ \E i \in Abouts(out) : out[i].k = "attachment" /\ out[i].id = uuid("F1")

(***************************************************************************)
(* C9: for a publication with a container, under embed_container the whole *)
(* fragment of the container is nested between the opening and the closing *)
(* dcterms:isPartOf of the publication; otherwise exactly one link         *)
(* dcterms:isPartOf with the identifier of the container is written and    *)
(* output_paper is not called on the container.                            *)
(***************************************************************************)
C9_ContainerEmbeddedOrReferenced ==
    /\ \A i \in ClosedElements(out) :
         LET p == PaperOf(out[i].id)
             c == container[p]
             kids == ChildrenOf(out, i)
             inside == (i + 1)..(CloseOf(out, i) - 1)
         IN c # None =>
              IF embed_container
              THEN /\ Count(out, kids, IsPartOfOpen) = 1
                   /\ Count(out, kids, IsPartOfClose) = 1
                   /\ \A m \in kids : out[m].k # "isPartOfRef"
                   /\ \E a, b \in kids :
                        /\ out[a] = IsPartOfOpen
                        /\ out[b] = IsPartOfClose
                        /\ a + 1 \in ClosedElements(out)
                        /\ out[a + 1].id = uuid(c)
                        /\ CloseOf(out, a + 1) < b
                        /\ \A m \in (CloseOf(out, a + 1) + 1)..(b - 1) :
                               m \in TrailOf(out, CloseOf(out, a + 1))
              ELSE /\ Count(out, kids, IsPartOfRef(uuid(c))) = 1
                   /\ \A m \in inside :
                          out[m].k \notin {"open", "isPartOfOpen", "isPartOfClose"}
                   /\ \A m \in inside : out[m].k = "isPartOfRef" => out[m].id = uuid(c)
    /\ ~embed_container =>
         /\ Len(stack) <= 1
         /\ \A i \in 1..Len(out) : out[i].k = "open" => Depth(out, i) = 0

\* a publication with a container is serialized with the container in place
C9_Witness ==
    /\ embed_container
    /\ \E i \in ClosedElements(out) :
           /\ out[i].id = uuid("P1")
           /\ \E m \in ChildrenOf(out, i) : out[m].k = "open" /\ out[m].id = uuid("K")

(***************************************************************************)
(* C10: every attachment fragment is written at the top level, after the   *)
(* closing tag of the publication that owns it, and never inside a         *)
(* publication element, also for a container serialized in place.          *)
(***************************************************************************)
C10_AttachmentsAtTopLevel ==
    \A i \in 1..Len(out) : out[i].k = "attachment" => Depth(out, i) = 0

(***************************************************************************)
(* C11: for every note of a serialized publication the bib:Memo fragment   *)
(* carries note.html verbatim, character for character, with no XML        *)
(* escaping, also when the html holds <, > or &.                           *)
(***************************************************************************)
\* the note whose uuid is u
NoteOf(u) == CHOOSE n \in Notes : uuid(n) = u

C11_MemoBodyVerbatim ==
    \A i \in 1..Len(out) :
        out[i].k = "memo" => out[i].v = html[NoteOf(out[i].id)]

\* C11 as amended: the fragment carries note.html with every &, < and >
\* replaced by &amp;, &lt; and &gt; and every other character as it is; it
\* is note.html character for character only when the html holds none of them.
C11_MemoBodyEscaped ==
    /\ \A i \in 1..Len(out) :
         out[i].k = "memo" =>
             LET h == html[NoteOf(out[i].id)]
                 b == out[i].v
             IN /\ Len(b) = Len(h)
                /\ \A m \in 1..Len(h) :
                       b[m] = CASE h[m] = "&" -> "&amp;"
                                [] h[m] = "<" -> "&lt;"
                                [] h[m] = ">" -> "&gt;"
                                [] OTHER -> h[m]
                /\ (b = h) <=> (Range(h) \cap {"&", "<", ">"} = {})
    /\ \A i \in ClosedElements(out) :
         \A n \in Range(notes(PaperOf(out[i].id))) :
             \E m \in TrailOf(out, CloseOf(out, i)) :
                 out[m].k = "memo" /\ out[m].id = uuid(n)

\* the note of a serialized publication holds a < and a &
C11_Witness ==
    \E i \in 1..Len(out) :
        /\ out[i].k = "memo"
        /\ out[i].id = uuid("N1")
        /\ html["N1"] = <<"<", "&">>

====
